---------------------------- MODULE Spec2Model ----------------------------
(***************************************************************************)
(* A model of the bark client library: the MessageBuilder and its          *)
(* validation (src/src/message.rs), the wire encoding of a Message (the    *)
(* serde attributes and the hand-written Serialize impls of message.rs)    *)
(* and the Client's send path (src/src/client.rs).                         *)
(*                                                                         *)
(* Conventions.  An Option<T> is a set with at most one element: None is   *)
(* {} and Some(v) is {v}.  A HashSet<String> is a set of strings.  A       *)
(* String that the code inspects (the base URL) is a sequence of           *)
(* characters; the other strings are opaque.  A wire payload is the        *)
(* sequence of map entries the serializer emits, in emission order.        *)
(***************************************************************************)
EXTENDS Integers, Sequences, FiniteSets, TLC

(***************************************************************************)
(* Bounds of the model and argument domains.                               *)
(***************************************************************************)
\* The number of setter calls made on builders in one behaviour of SpecBuilder,
\* of SpecVolume and of Spec.
MaxCalls == 3
MaxVolumeCalls == 2
MaxClientCalls == 1
\* The number of sends started in one behaviour.
MaxSends == 2

\* u8::MAX, the largest argument MessageBuilder::volume accepts.
U8Max == 255

Strings == {"a", "b"}
DeviceKeys == {"A", "B", "C"}
\* The keys messages are given in Spec.
MessageKeys == {"B", "C"}
Levels == {"Critical", "Active", "TimeSensitive", "Passive"}
BodyKinds == {"Plaintext", "Markdown"}
Badges == {0, 7}
Volumes == {0, 10, 11, U8Max}
AllVolumes == 0 .. U8Max

None == {}
Some(v) == {v}

(***************************************************************************)
(* error.rs                                                                *)
(***************************************************************************)
VolumeOutOfRange(current, max) ==
    [kind |-> "VolumeOutOfRange", current |-> current, max |-> max]

MissingDeviceKey == [kind |-> "MissingDeviceKey", current |-> 0, max |-> 0]

RequestError == [kind |-> "RequestError", current |-> 0, max |-> 0]

Ok(v) == [ok |-> Some(v), err |-> None]
Err(e) == [ok |-> None, err |-> Some(e)]

(***************************************************************************)
(* message.rs: Flag, BodyKind, Body, Level                                 *)
(***************************************************************************)
\* The tuple struct Flag(pub bool).
Flag(value) == <<value>>

\* A faulty variant: the test is inverted.
Flag_is_false_Inverted(self) == self[1]

Flag_is_false(self) == ~self[1]

Flag_from(value) == Flag(value)

\* #[derive(Default)] on BodyKind, with #[default] on Plaintext.
BodyKind_default == "Plaintext"

Body(kind, content) == [kind |-> kind, content |-> content]

(***************************************************************************)
(* message.rs: MessageBuilder                                              *)
(***************************************************************************)
\* #[derive(Default)]: every Option None, every bool false, the set empty.
MessageBuilder_default ==
    [title |-> None, subtitle |-> None, body |-> None,
     body_kind |-> BodyKind_default, device_keys |-> {}, level |-> None,
     volume |-> None, badge |-> None, call |-> FALSE, auto_copy |-> FALSE,
     copy |-> None, sound |-> None, icon |-> None, image |-> None,
     group |-> None, ciphertext |-> None, is_archive |-> FALSE,
     url |-> None, action |-> None, id |-> None, delete |-> FALSE]

MAX_VOLUME == 10

\* A faulty variant: the first title set is kept.
title_KeepFirst(self, v) ==
    IF self.title = None THEN [self EXCEPT !.title = Some(v)] ELSE self

title(self, v) == [self EXCEPT !.title = Some(v)]

subtitle(self, v) == [self EXCEPT !.subtitle = Some(v)]

body(self, v) == [self EXCEPT !.body = Some(v)]

body_kind(self, v) == [self EXCEPT !.body_kind = v]

device_key(self, v) == [self EXCEPT !.device_keys = @ \cup {v}]

device_keys(self, vs) == [self EXCEPT !.device_keys = @ \cup vs]

level(self, v) == [self EXCEPT !.level = Some(v)]

volume(self, v) == [self EXCEPT !.volume = Some(v)]

badge(self, v) == [self EXCEPT !.badge = Some(v)]

call(self, v) == [self EXCEPT !.call = v]

auto_copy(self, v) == [self EXCEPT !.auto_copy = v]

copy(self, v) == [self EXCEPT !.copy = Some(v)]

sound(self, v) == [self EXCEPT !.sound = Some(v)]

icon(self, v) == [self EXCEPT !.icon = Some(v)]

image(self, v) == [self EXCEPT !.image = Some(v)]

group(self, v) == [self EXCEPT !.group = Some(v)]

ciphertext(self, v) == [self EXCEPT !.ciphertext = Some(v)]

is_archive(self, v) == [self EXCEPT !.is_archive = v]

url(self, v) == [self EXCEPT !.url = Some(v)]

action(self, v) == [self EXCEPT !.action = Some(v)]

id(self, v) == [self EXCEPT !.id = Some(v)]

delete(self, v) == [self EXCEPT !.delete = v]

\* A faulty variant: the ceiling itself is refused.
VolumeTooLoud_AtLeast(self) == {v \in self.volume : v >= MAX_VOLUME}

\* self.volume.filter(|&volume| volume > Self::MAX_VOLUME)
VolumeTooLoud(self) == {v \in self.volume : v > MAX_VOLUME}

\* The struct literal of build(): the Message of a builder that validated.
MessageOf(self) ==
    [title |-> self.title,
     subtitle |-> self.subtitle,
     body |-> {Body(self.body_kind, content) : content \in self.body},
     device_keys |-> self.device_keys,
     level |-> self.level,
     volume |-> self.volume,
     badge |-> self.badge,
     call |-> Flag_from(self.call),
     auto_copy |-> Flag_from(self.auto_copy),
     copy |-> self.copy,
     sound |-> self.sound,
     icon |-> self.icon,
     image |-> self.image,
     group |-> self.group,
     ciphertext |-> self.ciphertext,
     is_archive |-> Flag_from(self.is_archive),
     url |-> self.url,
     action |-> self.action,
     id |-> self.id,
     delete |-> Flag_from(self.delete)]

\* A faulty variant: build() does not validate.
build_Unchecked(self) == Ok(MessageOf(self))

build(self) ==
    IF VolumeTooLoud(self) # {}
    THEN Err(VolumeOutOfRange(CHOOSE v \in VolumeTooLoud(self) : TRUE, MAX_VOLUME))
    ELSE Ok(MessageOf(self))

(***************************************************************************)
(* message.rs: the wire encoding                                           *)
(***************************************************************************)
JString(s) == [t |-> "string", s |-> s]
JNumber(n) == [t |-> "number", n |-> n]
JArray(a) == [t |-> "array", a |-> a]
JNull == [t |-> "null"]

Entry(key, value) == [key |-> key, value |-> value]

\* impl Serialize for Flag
Flag_serialize(self) == IF self[1] THEN JNumber(1) ELSE JNull

\* A faulty variant: the kind is ignored.
Body_serialize_KindIgnored(self) == <<Entry("body", JString(self.content))>>

\* impl Serialize for Body: a map of one entry, keyed by the kind.
Body_serialize(self) ==
    IF self.kind = "Markdown"
    THEN <<Entry("markdown", JString(self.content))>>
    ELSE <<Entry("body", JString(self.content))>>

\* #[serde(rename_all = "camelCase")] on Level.
Level_serialize(self) ==
    CASE self = "Critical" -> JString("critical")
      [] self = "Active" -> JString("active")
      [] self = "TimeSensitive" -> JString("timeSensitive")
      [] self = "Passive" -> JString("passive")

\* An Option field under skip_serializing_if = "Option::is_none"; opt holds
\* the serialized value.
OptionEntry(key, opt) ==
    IF opt = None THEN <<>> ELSE <<Entry(key, CHOOSE v \in opt : TRUE)>>

\* A Flag field under skip_serializing_if = "Flag::is_false".
FlagEntry(key, flag) ==
    IF Flag_is_false(flag) THEN <<>> ELSE <<Entry(key, Flag_serialize(flag))>>

\* The body field: skipped when None, flattened into the parent map otherwise.
BodyEntries(opt) ==
    IF opt = None THEN <<>> ELSE Body_serialize(CHOOSE v \in opt : TRUE)

\* A faulty variant: the empty set is serialized too.
DeviceKeysEntry_Always(keys) == <<Entry("device_keys", JArray(keys))>>

\* device_keys under skip_serializing_if = "HashSet::is_empty".
DeviceKeysEntry(keys) ==
    IF keys = {} THEN <<>> ELSE <<Entry("device_keys", JArray(keys))>>

\* #[derive(Serialize)] on Message: the fields in declaration order.
Message_serialize(self) ==
    OptionEntry("title", {JString(v) : v \in self.title})
    \o OptionEntry("subtitle", {JString(v) : v \in self.subtitle})
    \o BodyEntries(self.body)
    \o DeviceKeysEntry(self.device_keys)
    \o OptionEntry("level", {Level_serialize(v) : v \in self.level})
    \o OptionEntry("volume", {JNumber(v) : v \in self.volume})
    \o OptionEntry("badge", {JNumber(v) : v \in self.badge})
    \o FlagEntry("call", self.call)
    \o FlagEntry("auto_copy", self.auto_copy)
    \o OptionEntry("copy", {JString(v) : v \in self.copy})
    \o OptionEntry("sound", {JString(v) : v \in self.sound})
    \o OptionEntry("icon", {JString(v) : v \in self.icon})
    \o OptionEntry("image", {JString(v) : v \in self.image})
    \o OptionEntry("group", {JString(v) : v \in self.group})
    \o OptionEntry("ciphertext", {JString(v) : v \in self.ciphertext})
    \o FlagEntry("is_archive", self.is_archive)
    \o OptionEntry("url", {JString(v) : v \in self.url})
    \o OptionEntry("action", {JString(v) : v \in self.action})
    \o OptionEntry("id", {JString(v) : v \in self.id})
    \o FlagEntry("delete", self.delete)

(***************************************************************************)
(* client.rs: Client                                                       *)
(***************************************************************************)
ClientIds == {"c1", "c2"}

\* The keys a client is configured with: c1 is the client the sends share, c2
\* another client.
ClientKeys(c) == IF c = "c1" THEN {"A", "B"} ELSE {"C"}

\* Base URLs handed to Client::new, as sequences of characters.
BaseUrls == {<<"h">>, <<"h", "/">>}

\* The one acknowledgement the service returns.
BarkResponse == [code |-> 200, message |-> "success", timestamp |-> 0]

ends_with(s, c) == Len(s) > 0 /\ s[Len(s)] = c

pop(s) == SubSeq(s, 1, Len(s) - 1)

Client_new(base_url) ==
    [base_url |-> IF ends_with(base_url, "/") THEN pop(base_url) ELSE base_url,
     default_device_keys |-> {}]

with_device_key(self, v) ==
    [self EXCEPT !.default_device_keys = @ \cup {v}]

with_device_keys(self, vs) ==
    [self EXCEPT !.default_device_keys = @ \cup vs]

\* A faulty variant: the default keys are added to the keys the message has.
InjectDefaults_Merge(self, m) ==
    [m EXCEPT !.device_keys = @ \cup self.default_device_keys]

\* A faulty variant: default keys replace the keys the message has.
InjectDefaults_Replace(self, m) ==
    IF m.device_keys = {} \/ self.default_device_keys # {}
    THEN [m EXCEPT !.device_keys = self.default_device_keys]
    ELSE m

\* Lines 63-67 of Client::send: the fallback keys are cloned into an empty set.
InjectDefaults(self, m) ==
    IF m.device_keys = {}
    THEN [m EXCEPT !.device_keys = @ \cup self.default_device_keys]
    ELSE m

\* format!("{}/push", self.base_url) and .json(message)
PostRequest(self, m) ==
    [url |-> self.base_url \o <<"/", "p", "u", "s", "h">>,
     json |-> Message_serialize(m)]

\* A faulty variant: the keys are not checked before the request is posted.
Client_send_Unchecked(self, m) ==
    [client |-> self, message |-> InjectDefaults(self, m),
     post |-> Some(PostRequest(self, InjectDefaults(self, m))), ret |-> None]

\* A faulty variant: the default keys are moved into the message, not cloned.
Client_send_Moved(self, m) ==
    LET injected == InjectDefaults(self, m)
        left == IF m.device_keys = {}
                THEN [self EXCEPT !.default_device_keys = {}]
                ELSE self
    IN  IF injected.device_keys = {}
        THEN [client |-> left, message |-> injected, post |-> None,
              ret |-> Some(Err(MissingDeviceKey))]
        ELSE [client |-> left, message |-> injected,
              post |-> Some(PostRequest(self, injected)), ret |-> None]

\* Client::send up to its first await: the Client (borrowed as &self) and the
\* message as the call leaves them, the request posted (None when none is) and
\* the error returned early (None when none is).
Client_send(self, m) ==
    LET injected == InjectDefaults(self, m)
    IN  IF injected.device_keys = {}
        THEN [client |-> self, message |-> injected, post |-> None,
              ret |-> Some(Err(MissingDeviceKey))]
        ELSE [client |-> self, message |-> injected,
              post |-> Some(PostRequest(self, injected)), ret |-> None]

(***************************************************************************)
(* The state                                                               *)
(***************************************************************************)
VARIABLES
    clients,     \* ClientIds -> Option<Client>: the clients constructed so far
    configured,  \* history: per client, the base URL and keys it was configured with
    builder,     \* Option<MessageBuilder>: the builder in progress
    owner,       \* Option<ClientId>: the Client a ClientMessageBuilder borrows
    last,        \* history of builder: per setter the argument of its last call (for
                 \* the key setters, every key passed), the number of setter calls
                 \* and the number of keys passed
    ncalls,      \* the number of setter calls made
    built,       \* Option<Result<Message>>: what the build() just called returned
    message,     \* Option<Message>: the Message the caller holds
    sent,        \* Option: the send just started, with the request it posted
    nsends,      \* the number of sends started
    inflight,    \* the sends awaiting the transport's response
    returned     \* Option<Result<BarkResponse>>: what the send that just returned returned

vars == <<clients, configured, builder, owner, last, ncalls, built, message,
          sent, nsends, inflight, returned>>

clientVars == <<clients, configured>>

\* built, sent and returned describe the step just taken: a step that is no
\* build() leaves built None, and so on.
NoBuild == built' = None
NoSend == sent' = None /\ returned' = None

\* No setter called yet.
NoCalls ==
    [title |-> None, subtitle |-> None, body |-> None, body_kind |-> None,
     device_keys |-> {}, level |-> None, volume |-> None, badge |-> None,
     call |-> None, auto_copy |-> None, copy |-> None, sound |-> None,
     icon |-> None, image |-> None, group |-> None, ciphertext |-> None,
     is_archive |-> None, url |-> None, action |-> None, id |-> None,
     delete |-> None, calls |-> 0, key_adds |-> 0]

Init ==
    /\ clients = [c \in ClientIds |-> None]
    /\ configured = [c \in ClientIds |-> None]
    /\ builder = None
    /\ owner = None
    /\ last = NoCalls
    /\ ncalls = 0
    /\ built = None
    /\ message = None
    /\ sent = None
    /\ nsends = 0
    /\ inflight = {}
    /\ returned = None

\* A Client is borrowed while a ClientMessageBuilder or a pending send holds it.
ClientBorrowed(c) ==
    \/ c \in owner
    \/ \E f \in inflight : f.client = c

\* The caller's Message is borrowed while a Client::send on it is pending.
MessageBorrowed == \E f \in inflight : f.via = "Client::send"

(***************************************************************************)
(* Client construction and configuration                                   *)
(***************************************************************************)
ClientNew(c, base_url) ==
    /\ clients[c] = None
    /\ clients' = [clients EXCEPT ![c] = Some(Client_new(base_url))]
    /\ configured' = [configured EXCEPT ![c] =
                        Some([base_url |-> Client_new(base_url).base_url, keys |-> {}])]
    /\ NoBuild /\ NoSend
    /\ UNCHANGED <<builder, owner, last, ncalls, message, nsends, inflight>>

Configure(c, new, added) ==
    /\ ~ClientBorrowed(c)
    /\ clients' = [clients EXCEPT ![c] = Some(new)]
    /\ configured' = [configured EXCEPT ![c] =
                        {[g EXCEPT !.keys = @ \cup added] : g \in configured[c]}]
    /\ NoBuild /\ NoSend
    /\ UNCHANGED <<builder, owner, last, ncalls, message, nsends, inflight>>

WithDeviceKey(c, v) ==
    \E self \in clients[c] : Configure(c, with_device_key(self, v), {v})

WithDeviceKeys(c, vs) ==
    \E self \in clients[c] : Configure(c, with_device_keys(self, vs), vs)

(***************************************************************************)
(* Builders                                                                *)
(***************************************************************************)
\* Message::builder()
MessageBuilderNew ==
    /\ builder = None
    /\ builder' = Some(MessageBuilder_default)
    /\ owner' = None
    /\ last' = NoCalls
    /\ NoBuild /\ NoSend
    /\ UNCHANGED <<clientVars, ncalls, message, nsends, inflight>>

\* Client::message()
ClientMessage(c) ==
    /\ builder = None
    /\ clients[c] # None
    /\ builder' = Some(MessageBuilder_default)
    /\ owner' = Some(c)
    /\ last' = NoCalls
    /\ NoBuild /\ NoSend
    /\ UNCHANGED <<clientVars, ncalls, message, nsends, inflight>>

\* A setter of MessageBuilder, or the setter of ClientMessageBuilder that
\* hands its argument to it: the builder is replaced by the one returned.
SetterCall(new, field, arg) ==
    /\ builder' = Some(new)
    /\ last' = [last EXCEPT ![field] = arg, !.calls = @ + 1]
    /\ ncalls' = ncalls + 1
    /\ NoBuild /\ NoSend
    /\ UNCHANGED <<clientVars, owner, message, nsends, inflight>>

Title(v) == \E self \in builder : SetterCall(title(self, v), "title", Some(v))

Subtitle(v) == \E self \in builder : SetterCall(subtitle(self, v), "subtitle", Some(v))

BodyText(v) == \E self \in builder : SetterCall(body(self, v), "body", Some(v))

BodyKindSel(v) == \E self \in builder : SetterCall(body_kind(self, v), "body_kind", Some(v))

\* A call of a key setter with the keys vs.
KeySetterCall(new, vs) ==
    /\ builder' = Some(new)
    /\ last' = [last EXCEPT !.device_keys = @ \cup vs, !.calls = @ + 1,
                            !.key_adds = @ + Cardinality(vs)]
    /\ ncalls' = ncalls + 1
    /\ NoBuild /\ NoSend
    /\ UNCHANGED <<clientVars, owner, message, nsends, inflight>>

DeviceKey(v) == \E self \in builder : KeySetterCall(device_key(self, v), {v})

DeviceKeySet(vs) == \E self \in builder : KeySetterCall(device_keys(self, vs), vs)

LevelSel(v) == \E self \in builder : SetterCall(level(self, v), "level", Some(v))

Volume(v) == \E self \in builder : SetterCall(volume(self, v), "volume", Some(v))

Badge(v) == \E self \in builder : SetterCall(badge(self, v), "badge", Some(v))

Call(v) == \E self \in builder : SetterCall(call(self, v), "call", Some(v))

AutoCopy(v) == \E self \in builder : SetterCall(auto_copy(self, v), "auto_copy", Some(v))

Copy(v) == \E self \in builder : SetterCall(copy(self, v), "copy", Some(v))

Sound(v) == \E self \in builder : SetterCall(sound(self, v), "sound", Some(v))

Icon(v) == \E self \in builder : SetterCall(icon(self, v), "icon", Some(v))

Image(v) == \E self \in builder : SetterCall(image(self, v), "image", Some(v))

Group(v) == \E self \in builder : SetterCall(group(self, v), "group", Some(v))

Ciphertext(v) == \E self \in builder : SetterCall(ciphertext(self, v), "ciphertext", Some(v))

IsArchive(v) == \E self \in builder : SetterCall(is_archive(self, v), "is_archive", Some(v))

Url(v) == \E self \in builder : SetterCall(url(self, v), "url", Some(v))

Action(v) == \E self \in builder : SetterCall(action(self, v), "action", Some(v))

Id(v) == \E self \in builder : SetterCall(id(self, v), "id", Some(v))

Delete(v) == \E self \in builder : SetterCall(delete(self, v), "delete", Some(v))

\* MessageBuilder::build(), called by the owner of a plain MessageBuilder: the
\* builder is consumed, and the caller keeps the Message of an Ok.
Build ==
    /\ owner = None
    /\ ~MessageBorrowed
    /\ \E self \in builder :
        /\ built' = Some(build(self))
        /\ message' = IF build(self).ok # None THEN build(self).ok ELSE message
    /\ builder' = None
    /\ NoSend
    /\ UNCHANGED <<clientVars, owner, last, ncalls, nsends, inflight>>

(***************************************************************************)
(* Sends                                                                   *)
(***************************************************************************)
\* What a send that reached Client::send does before its first await: it
\* returns early, or its request reaches the transport and it waits.  from is
\* the builder a ClientMessageBuilder::send built m from (None for a
\* Client::send on the caller's Message).
StartSend(c, self, via, from, m) ==
    LET p == Client_send(self, m)
    IN  /\ clients' = [clients EXCEPT ![c] = Some(p.client)]
        /\ nsends' = nsends + 1
        /\ sent' = Some([via |-> via, client |-> c,
                         defaults |-> self.default_device_keys, builder |-> from,
                         before |-> Some(m), after |-> Some(p.message),
                         post |-> p.post, ret |-> p.ret])
        /\ inflight' = IF p.post # None
                       THEN inflight \cup {[id |-> nsends + 1, via |-> via, client |-> c]}
                       ELSE inflight
        /\ returned' = p.ret

\* Client::send(&self, &mut message), up to its first await.
ClientSend(c) ==
    /\ nsends < MaxSends
    /\ ~MessageBorrowed
    /\ \E self \in clients[c] : \E m \in message :
        /\ StartSend(c, self, "Client::send", None, m)
        /\ message' = Some(Client_send(self, m).message)
    /\ NoBuild
    /\ UNCHANGED <<configured, builder, owner, last, ncalls>>

\* ClientMessageBuilder::send(self), up to its first await: build()?, then
\* Client::send on the Message built, which the call owns.
BuilderSend ==
    /\ nsends < MaxSends
    /\ \E c \in owner : \E self \in clients[c] : \E b \in builder :
        IF build(b).err # None
        THEN /\ nsends' = nsends + 1
             /\ sent' = Some([via |-> "ClientMessageBuilder::send", client |-> c,
                              defaults |-> self.default_device_keys,
                              builder |-> Some(b), before |-> None, after |-> None,
                              post |-> None, ret |-> Some(Err(CHOOSE e \in build(b).err : TRUE))])
             /\ returned' = Some(Err(CHOOSE e \in build(b).err : TRUE))
             /\ UNCHANGED <<clients, inflight>>
        ELSE \E m \in build(b).ok :
                StartSend(c, self, "ClientMessageBuilder::send", Some(b), m)
    /\ builder' = None
    /\ owner' = None
    /\ NoBuild
    /\ UNCHANGED <<configured, last, ncalls, message>>

\* The transport answers a pending send, which returns Ok(response), or fails
\* it, and the send returns the RequestError.
Respond(f, result) ==
    /\ f \in inflight
    /\ inflight' = inflight \ {f}
    /\ returned' = Some(result)
    /\ sent' = None
    /\ NoBuild
    /\ UNCHANGED <<clientVars, builder, owner, last, ncalls, message, nsends>>

(***************************************************************************)
(* Specifications                                                          *)
(***************************************************************************)
\* The arguments a setter may be called with: those of S while fewer than max
\* setter calls were made, none after.
Upto(max, S) == IF ncalls < max THEN S ELSE {}

\* One call of a setter, at most max in a behaviour, its argument drawn from
\* the given sets.
Setters(max, strs, keys, kinds, lvls, vols, bdgs) ==
    \/ \E v \in Upto(max, strs) : Title(v)
    \/ \E v \in Upto(max, strs) : Subtitle(v)
    \/ \E v \in Upto(max, strs) : BodyText(v)
    \/ \E v \in Upto(max, kinds) : BodyKindSel(v)
    \/ \E v \in Upto(max, keys) : DeviceKey(v)
    \/ \E vs \in Upto(max, SUBSET keys) : DeviceKeySet(vs)
    \/ \E v \in Upto(max, lvls) : LevelSel(v)
    \/ \E v \in Upto(max, vols) : Volume(v)
    \/ \E v \in Upto(max, bdgs) : Badge(v)
    \/ \E v \in Upto(max, BOOLEAN) : Call(v)
    \/ \E v \in Upto(max, BOOLEAN) : AutoCopy(v)
    \/ \E v \in Upto(max, strs) : Copy(v)
    \/ \E v \in Upto(max, strs) : Sound(v)
    \/ \E v \in Upto(max, strs) : Icon(v)
    \/ \E v \in Upto(max, strs) : Image(v)
    \/ \E v \in Upto(max, strs) : Group(v)
    \/ \E v \in Upto(max, strs) : Ciphertext(v)
    \/ \E v \in Upto(max, BOOLEAN) : IsArchive(v)
    \/ \E v \in Upto(max, strs) : Url(v)
    \/ \E v \in Upto(max, strs) : Action(v)
    \/ \E v \in Upto(max, strs) : Id(v)
    \/ \E v \in Upto(max, BOOLEAN) : Delete(v)

\* The builder alone: every setter, and build().
NextBuilder ==
    \/ MessageBuilderNew
    \/ Setters(MaxCalls, Strings, DeviceKeys, BodyKinds, Levels, Volumes, Badges)
    \/ Build

SpecBuilder == Init /\ [][NextBuilder]_vars

\* The builder alone, with every volume a u8 holds.
NextVolume ==
    \/ MessageBuilderNew
    \/ Setters(MaxVolumeCalls, {"a"}, {"A"}, {"Markdown"}, {"Active"}, AllVolumes, {0})
    \/ Build

SpecVolume == Init /\ [][NextVolume]_vars

\* The clients, their builders and their sends.  The setters called are those
\* the sends read (the key setters and volume) and, for the fields a send
\* passes through, the setter of an Option field (title) and of a flag (call).
Next ==
    \/ \E c \in ClientIds : \E u \in BaseUrls : ClientNew(c, u)
    \/ \E c \in ClientIds : \E v \in ClientKeys(c) : WithDeviceKey(c, v)
    \/ \E c \in ClientIds : \E vs \in SUBSET ClientKeys(c) : WithDeviceKeys(c, vs)
    \/ MessageBuilderNew
    \/ \E c \in ClientIds : ClientMessage(c)
    \/ \E v \in Upto(MaxClientCalls, {"a"}) : Title(v)
    \/ \E v \in Upto(MaxClientCalls, MessageKeys) : DeviceKey(v)
    \/ \E vs \in Upto(MaxClientCalls, SUBSET MessageKeys) : DeviceKeySet(vs)
    \/ \E v \in Upto(MaxClientCalls, {MAX_VOLUME, MAX_VOLUME + 1}) : Volume(v)
    \/ \E v \in Upto(MaxClientCalls, {TRUE}) : Call(v)
    \/ Build
    \/ \E c \in ClientIds : ClientSend(c)
    \/ BuilderSend
    \/ \E f \in inflight : \E r \in {Ok(BarkResponse), Err(RequestError)} :
        Respond(f, r)

Spec == Init /\ [][Next]_vars

(***************************************************************************)
(* Reading a wire payload                                                  *)
(***************************************************************************)
WireKeys(p) == {p[i].key : i \in DOMAIN p}

\* How many entries of p have the key k.
Count(p, k) == Cardinality({i \in DOMAIN p : p[i].key = k})

\* The values p holds under the key k.
ValuesOf(p, k) == {p[i].value : i \in {j \in DOMAIN p : p[j].key = k}}

\* p holds the key k exactly once, with the value v.
Holds(p, k, v) == Count(p, k) = 1 /\ ValuesOf(p, k) = {v}

\* The keys of the device_keys array of p.
KeysReceived(p) == UNION {v.a : v \in ValuesOf(p, "device_keys")}

\* The Messages the build() just called returned.
BuiltMessages == UNION {r.ok : r \in built}

FlagFields == {"call", "auto_copy", "is_archive", "delete"}

TextFields == {"title", "subtitle", "copy", "sound", "icon", "image", "group",
               "ciphertext", "url", "action", "id"}

(***************************************************************************)
(* The properties                                                          *)
(***************************************************************************)
\* C1: build() succeeds when the volume is unset or at most 10, and the wire
\* payload then holds the volume set (no volume key when unset); with a volume
\* v above 10 build() returns VolumeOutOfRange{current: v, max: 10} and no
\* Message, whatever the other fields hold.
C1_VolumeValidated ==
    \A r \in built :
        /\ (\A v \in last.volume : v <= 10) =>
              /\ r.err = None
              /\ \E m \in r.ok :
                    /\ ValuesOf(Message_serialize(m), "volume")
                          = {JNumber(v) : v \in last.volume}
                    /\ Count(Message_serialize(m), "volume")
                          = Cardinality(last.volume)
        /\ \A v \in last.volume :
              v > 10 => r = [ok |-> {}, err |-> {VolumeOutOfRange(v, 10)}]

\* build() refused the largest volume a u8 holds, on a builder with a title.
C1_Witness ==
    \E r \in built :
        /\ r.ok = None
        /\ last.volume = {255}
        /\ last.title # None

\* C6: for each flag of call, auto_copy, is_archive and delete, the wire
\* payload holds the flag's key, once and with the number 1, if and only if
\* the last value set for the flag is true; never set or last set to false,
\* the key is absent.
C6_FlagsOneOrAbsent ==
    \A m \in BuiltMessages : \A f \in FlagFields :
        IF last[f] = {TRUE}
        THEN Holds(Message_serialize(m), f, JNumber(1))
        ELSE f \notin WireKeys(Message_serialize(m))

\* Three calls, the last call() with false and the last delete() with true:
\* the payload holds delete alone.
C6_Witness ==
    \E m \in BuiltMessages :
        /\ last.call = {FALSE}
        /\ last.delete = {TRUE}
        /\ last.calls = 3
        /\ WireKeys(Message_serialize(m)) = {"delete"}

\* C7: the wire payload never holds both body and markdown, and no key for the
\* kind; with body text set it holds exactly one of the two, markdown if the
\* last kind set is Markdown and body otherwise, with the last text set;
\* without body text it holds neither, whatever kind was set.
C7_BodyOrMarkdown ==
    \A m \in BuiltMessages :
        LET p == Message_serialize(m)
        IN  /\ ~({"body", "markdown"} \subseteq WireKeys(p))
            /\ WireKeys(p) \cap {"kind", "body_kind"} = {}
            /\ \A text \in last.body :
                  IF last.body_kind = {"Markdown"}
                  THEN Holds(p, "markdown", JString(text)) /\ "body" \notin WireKeys(p)
                  ELSE Holds(p, "body", JString(text)) /\ "markdown" \notin WireKeys(p)
            /\ last.body = None => WireKeys(p) \cap {"body", "markdown"} = {}

\* Three calls of body() and body_kind(), the last ones with b and Markdown.
C7_Witness ==
    \E m \in BuiltMessages :
        /\ last.body = {"b"}
        /\ last.body_kind = {"Markdown"}
        /\ last.calls = 3
        /\ Message_serialize(m) = <<Entry("markdown", JString("b"))>>

\* C8: the wire payload holds a key only for a field that carries information:
\* an optional field iff it was set, device_keys iff a key was added, a flag
\* iff it is true, body or markdown iff body text was set; the payload of a
\* builder no setter was called on is empty.
C8_OnlyInformation ==
    \A r \in built :
        /\ last.calls = 0 => r.ok # None
        /\ \A m \in r.ok :
            LET p == Message_serialize(m)
            IN  /\ WireKeys(p) =
                      {f \in TextFields \cup {"level", "volume", "badge"} : last[f] # None}
                      \cup {f \in {"device_keys"} : last.device_keys # {}}
                      \cup {f \in FlagFields : last[f] = {TRUE}}
                      \cup {f \in {"body"} : last.body # None /\ last.body_kind # {"Markdown"}}
                      \cup {f \in {"markdown"} : last.body # None /\ last.body_kind = {"Markdown"}}
                /\ \A k \in WireKeys(p) : Count(p, k) = 1
                /\ last.calls = 0 => p = <<>>

\* A builder no setter was called on was built, and its payload is empty.
C8_Witness ==
    \E m \in BuiltMessages :
        /\ last.calls = 0
        /\ Message_serialize(m) = <<>>

\* C9: after a build() that succeeded, each scalar field of the Message is the
\* argument of the last call of its setter (unset, false or Plaintext if it
\* was never called), whatever other setters were called, and device_keys is
\* the set of all keys passed to device_key and device_keys.
C9_LastCallWins ==
    \A m \in BuiltMessages :
        /\ \A f \in TextFields \cup {"level", "volume", "badge"} : m[f] = last[f]
        /\ \A f \in FlagFields : m[f] = Flag(last[f] = {TRUE})
        /\ m.body = {Body(IF last.body_kind = None THEN "Plaintext"
                          ELSE CHOOSE k \in last.body_kind : TRUE, text) :
                        text \in last.body}
        /\ m.device_keys = last.device_keys
        /\ Cardinality(m.device_keys) <= last.key_adds

\* One key passed twice, and a title set: the Message holds the key once.
C9_Witness ==
    \E m \in BuiltMessages :
        /\ last.key_adds = 2
        /\ last.title # None
        /\ Cardinality(m.device_keys) = 1

\* C2: the transport never receives a Message without device keys; a send of
\* a Message without keys through a Client without default keys returns
\* MissingDeviceKey and posts nothing.
C2_NeverSentWithoutKeys ==
    \A s \in sent :
        /\ \A q \in s.post :
              /\ KeysReceived(q.json) # {}
              /\ \A m \in s.after : m.device_keys # {}
        /\ \A m \in s.before :
              m.device_keys = {} /\ s.defaults = {} =>
                 /\ s.post = None
                 /\ returned = {Err(MissingDeviceKey)}

\* A ClientMessageBuilder::send without keys, through a Client without any.
C2_Witness ==
    \E s \in sent : \E m \in s.before :
        /\ s.via = "ClientMessageBuilder::send"
        /\ m.device_keys = {}
        /\ s.defaults = {}
        /\ returned = {Err(MissingDeviceKey)}

\* C3: with default keys D and message keys K, the transport receives exactly
\* K when K is not empty, and exactly D when K is empty and D is not.
C3_ExplicitKeysWin ==
    \A s \in sent : \A m \in s.before :
        LET K == IF s.builder # None THEN last.device_keys ELSE m.device_keys
            D == s.defaults
        IN  /\ K # {} => \E q \in s.post : KeysReceived(q.json) = K
            /\ K = {} /\ D # {} => \E q \in s.post : KeysReceived(q.json) = D

\* Defaults {A, B} and the explicit key C: the transport receives {C}.
C3_Witness ==
    \E s \in sent : \E q \in s.post :
        /\ s.defaults = {"A", "B"}
        /\ s.builder # None
        /\ last.device_keys = {"C"}
        /\ KeysReceived(q.json) = {"C"}

\* C4: a ClientMessageBuilder::send whose volume is above 10 returns
\* VolumeOutOfRange{current, max: 10} and posts nothing, also when neither the
\* message nor the Client has a device key.
C4_ValidatesFirst ==
    \A s \in sent :
        s.via = "ClientMessageBuilder::send" =>
            \A v \in last.volume :
                v > 10 =>
                    /\ returned = {Err(VolumeOutOfRange(v, 10))}
                    /\ s.post = None
                    /\ s.before = None

\* A volume of 11 and no key anywhere: VolumeOutOfRange, not MissingDeviceKey.
C4_Witness ==
    \E s \in sent :
        /\ s.via = "ClientMessageBuilder::send"
        /\ last.volume = {11}
        /\ last.device_keys = {}
        /\ s.defaults = {}
        /\ returned = {Err(VolumeOutOfRange(11, 10))}

\* C5: the default keys and the base URL of a Client are those it was
\* configured with, whatever sends were made, and a send without explicit keys
\* receives every default key.
C5_DefaultsKept ==
    /\ \A c \in ClientIds :
          /\ \A self \in clients[c] : \E g \in configured[c] :
                /\ self.default_device_keys = g.keys
                /\ self.base_url = g.base_url
          /\ clients[c] = None <=> configured[c] = None
    /\ \A s \in sent : \E g \in configured[s.client] :
          /\ s.defaults = g.keys
          /\ \A m \in s.before :
                m.device_keys = {} /\ g.keys # {} =>
                    \E q \in s.post : KeysReceived(q.json) = g.keys

\* The second of two sends through c1 that overlap receives {A, B}.
C5_Witness ==
    \E s \in sent : \E m \in s.before : \E q \in s.post :
        /\ nsends = 2
        /\ s.client = "c1"
        /\ s.via = "ClientMessageBuilder::send"
        /\ m.device_keys = {}
        /\ KeysReceived(q.json) = {"A", "B"}
        /\ Cardinality(inflight) = 2

\* C10: Client::send changes nothing of the caller's Message but device_keys,
\* which it leaves alone when not empty and sets to the Client's default keys
\* when empty.
C10_OnlyFallbackKeys ==
    \A s \in sent :
        s.via = "Client::send" =>
            \E m \in s.before :
                LET kept == [m EXCEPT !.device_keys =
                                IF m.device_keys = {} THEN s.defaults ELSE m.device_keys]
                IN  /\ s.after = {kept}
                    /\ message = {kept}

\* A Message that c1 filled with {A, B} is sent again through c2, whose
\* default key is C, and keeps {A, B}.
C10_Witness ==
    \E s \in sent : \E m \in s.before :
        /\ s.via = "Client::send"
        /\ nsends = 2
        /\ s.client = "c2"
        /\ s.defaults = {"C"}
        /\ m.device_keys = {"A", "B"}
        /\ m.title # None
        /\ message = {m}

=============================================================================
